---- MODULE Spec2Model ----
(***************************************************************************)
(* Model of the talking-head inference pipeline of                         *)
(* src/inference_for_demo_2_auto.py (inference_for_demo_2_gpufix.py is the *)
(* same program with an explicit device argument): the batch driver of     *)
(* __main__, generate_expression_params (pose alignment and the persisted  *)
(* aligned-parameter array) and render_video (windowing, batched image     *)
(* generation, video writing, audio muxing, temporary-file removal).       *)
(*                                                                         *)
(* Rows of the time series are symbolic: expression row i is <<"e", i>>,   *)
(* pose row j is <<"p", j>>.  The code never inspects a row's numbers, it  *)
(* only moves rows around, so distinct rows are the most discriminating    *)
(* input.  Frame and window indices are 0-based as in the code; TLA+       *)
(* sequences are 1-based, and RowAt converts.                              *)
(***************************************************************************)
EXTENDS Integers, Sequences, FiniteSets

\* ------------------------------------------------------------------ bounds
MaxN == 3          \* longest generated expression sequence
MaxM == 3          \* longest pose sequence
MaxItems == 2      \* most entries in the phoneme directory
MaxSplit == 2      \* largest split_size tried besides the driver's
MaxRadius == 1     \* largest semantic_radius tried besides the default

\* ------------------------------------------------------- program constants
DefaultRadius == 13     \* render_video(..., semantic_radius=13, ...)
DriverSplitSize == 4    \* __main__: render_video(..., split_size=4)

SplitSizes == (1..MaxSplit) \cup {DriverSplitSize}
Radii == (0..MaxRadius) \cup {DefaultRadius}

\* ------------------------------------------------------------------- paths
\* os.path.join(output_dir, f"{base_name}.mp4")
OutputPath(base) == [dir |-> "output", base |-> base, ext |-> "mp4"]
\* f"{output_path[:-4]}.npy": the output path with its extension replaced
ExpParamPath(out) == [dir |-> out.dir, base |-> out.base, ext |-> "npy"]
\* silent_video_path = "silent.mp4"
SilentPath == [dir |-> "cwd", base |-> 0, ext |-> "mp4"]
AllPaths ==
  {SilentPath} \cup {OutputPath(b) : b \in 1..MaxItems}
               \cup {ExpParamPath(OutputPath(b)) : b \in 1..MaxItems}

NoFile == [kind |-> "none"]
NoPath == [dir |-> "none", base |-> 0, ext |-> "none"]

\* ---------------------------------------------------------- pure helpers
\* numpy indexing of a row by an integer: negative indices wrap, anything
\* outside [-L, L) is an IndexError.
InRange(seq, i) == i >= 0 - Len(seq) /\ i < Len(seq)
RowAt(seq, i) == IF i >= 0 THEN seq[i + 1] ELSE seq[Len(seq) + i + 1]

Min(a, b) == IF a < b THEN a ELSE b
Max(a, b) == IF a > b THEN a ELSE b

\* core.utils.obtain_seq_index: the window of 2*radius+1 indices centred on
\* index, each clamped into [0, num_frames - 1].
obtain_seq_index(index, num_frames, radius) ==
  [k \in 1..(2 * radius + 1) |->
     Min(Max(index - radius + (k - 1), 0), num_frames - 1)]

\* The decoder's output and the pose track of a job, as symbolic rows.
ExpRows(n) == [i \in 1..n |-> <<"e", i>>]
PoseRows(m) == [j \in 1..m |-> <<"p", j>>]

\* np.tile(row, (k, 1)): k copies of row (k <= 0 gives no rows)
Tile(row, k) == [i \in 1..k |-> row]

\* A pose aligner that pads with the first row instead of the last.
AlignPoseFirstRow(p, n) ==
  IF Len(p) >= n THEN [ok |-> TRUE, val |-> SubSeq(p, 1, n)]
  ELSE IF Len(p) = 0 THEN [ok |-> FALSE, val |-> <<>>]
  ELSE [ok |-> TRUE, val |-> p \o Tile(RowAt(p, 0), n - Len(p))]

\* A pose aligner that never pads.
AlignPoseNoPad(p, n) ==
  IF Len(p) >= n THEN [ok |-> TRUE, val |-> SubSeq(p, 1, n)]
  ELSE IF Len(p) = 0 THEN [ok |-> FALSE, val |-> <<>>]
  ELSE [ok |-> TRUE, val |-> p]

\* selected_pose: pose[:len(gen_exp)] when the pose is long enough, else the
\* pose followed by copies of pose[-1]; pose[-1] of an empty pose raises
\* IndexError (ok = FALSE).
AlignPose(p, n) ==
  IF Len(p) >= n THEN [ok |-> TRUE, val |-> SubSeq(p, 1, n)]
  ELSE IF ~InRange(p, -1) THEN [ok |-> FALSE, val |-> <<>>]
  ELSE [ok |-> TRUE, val |-> p \o Tile(RowAt(p, -1), n - Len(p))]

\* np.concatenate((gen_exp, selected_pose), axis=1): row i is the expression
\* row followed by the pose row; differing row counts raise ValueError.
ConcatOk(e, s) == Len(e) = Len(s)
Concatenate(e, s) == [i \in 1..Len(e) |-> [exp |-> e[i], pose |-> s[i]]]

\* ------------------------------------------------------- render helpers
\* A windower call that passes a sequence length one too large.
WinIndicesLenPlusOne(frame_idx, seq, radius) ==
  obtain_seq_index(frame_idx, Len(seq) + 1, radius)

\* win_indices = obtain_seq_index(frame_idx, target_exp_seq.shape[0],
\*                                semantic_radius)
WinIndices(frame_idx, seq, radius) ==
  obtain_seq_index(frame_idx, Len(seq), radius)

\* target_exp_seq[win_indices] raises IndexError on an index out of range
WinIndicesOk(frame_idx, seq, radius) ==
  \A k \in 1..Len(WinIndices(frame_idx, seq, radius)) :
     InRange(seq, WinIndices(frame_idx, seq, radius)[k])

\* win_exp = torch.tensor(target_exp_seq[win_indices]).permute(1, 0): the
\* rows the window selects, in window order (permute only changes layout)
WinExp(frame_idx, seq, radius) ==
  [k \in 1..Len(WinIndices(frame_idx, seq, radius)) |->
     RowAt(seq, WinIndices(frame_idx, seq, radius)[k])]

\* the list target_win_exps after the loop over range(len(target_exp_seq))
BuildWindows(seq, radius) ==
  [f \in 1..Len(seq) |-> WinExp(f - 1, seq, radius)]

\* A split that drops a trailing chunk shorter than split_size.
RECURSIVE SplitDropTail(_, _)
SplitDropTail(seq, k) ==
  IF Len(seq) < k THEN <<>>
  ELSE <<SubSeq(seq, 1, k)>> \o SplitDropTail(SubSeq(seq, k + 1, Len(seq)), k)

\* torch.split(t, split_size, dim=0): consecutive chunks of split_size rows,
\* the last one smaller when split_size does not divide the row count.
RECURSIVE Split(_, _)
Split(seq, k) ==
  IF Len(seq) = 0 THEN <<>>
  ELSE IF Len(seq) <= k THEN <<seq>>
  ELSE <<SubSeq(seq, 1, k)>> \o Split(SubSeq(seq, k + 1, Len(seq)), k)

\* A broadcast of the reference image to a single row.
ExpandOne(img, n) == Tile(img, 1)

\* src_img.expand(win_exp.shape[0], -1, -1, -1)
Expand(img, n) == Tile(img, n)

SrcImg == "src_img"

\* The image generator: one image per sample of the batch, a function of
\* that sample's reference image and window alone; the two batches must have
\* the same number of samples.
NetGOk(src_batch, win_batch) == Len(src_batch) = Len(win_batch)
NetG(src_batch, win_batch) ==
  [i \in 1..Len(win_batch) |-> [src |-> src_batch[i], win |-> win_batch[i]]]

\* A concatenation that puts later chunks first.
RECURSIVE CatReversed(_)
CatReversed(batches) ==
  IF Len(batches) = 0 THEN <<>>
  ELSE CatReversed(Tail(batches)) \o Head(batches)

\* torch.cat(output_imgs, 0)
RECURSIVE Cat(_)
Cat(batches) ==
  IF Len(batches) = 0 THEN <<>>
  ELSE Head(batches) \o Cat(Tail(batches))

\* ((output_imgs + 1) / 2 * 255).to(torch.uint8).permute(0, 2, 3, 1): a
\* per-frame change of range and layout
Transform(imgs) == [i \in 1..Len(imgs) |-> [pix |-> "uint8", of |-> imgs[i]]]

\* ------------------------------------------------------------------ state
VARIABLES
  listing,             \* os.listdir(phoneme_dir): the directory's entries
  split_size,          \* render_video's split_size
  semantic_radius,     \* render_video's semantic_radius
  silent,              \* render_video's silent
  idx,                 \* position of the for loop in listing (1-based)
  pc,                  \* "loop", "render", "gen_loop", "write", "ffmpeg",
                       \* "remove", "done", "aborted"
  output_path, exp_param_path,
  gen_exp, pose, selected_pose,
  gen_outcome,         \* generate_expression_params: "none", "returned", "raised"
  gen_error,
  target_exp_seq, target_win_exps, target_splited_exps,
  chunk_i,             \* position of the loop over target_splited_exps
  inflight,            \* a net_G call has been issued and has not returned
  gen_calls,           \* the net_G calls issued by this render_video call
  output_imgs, transformed_imgs,
  ffmpeg_rc,           \* exit status of the ffmpeg run, -1 before it
  tmp_created,         \* this render_video call created silent.mp4
  render_outcome,      \* render_video: "none", "running", "returned", "raised"
  render_error,
  fs,                  \* the file system: path -> content
  started,             \* items whose expression generation has started
  rendered,            \* items whose rendering has started
  failed               \* first item on which a step failed, 0 if none

mainVars == <<listing, split_size, semantic_radius, silent, idx, pc,
              output_path, exp_param_path, started, rendered, failed>>
genVars == <<gen_exp, pose, selected_pose, gen_outcome, gen_error>>
renderVars == <<target_exp_seq, target_win_exps, target_splited_exps, chunk_i,
                inflight, gen_calls, output_imgs, transformed_imgs, ffmpeg_rc,
                tmp_created, render_outcome, render_error>>
vars == <<mainVars, genVars, renderVars, fs>>

\* the entries of a directory: name k with extension "json" or another one
Listings ==
  UNION {[1..n -> {"json", "txt"}] : n \in 1..MaxItems}

\* The locals of a render_video call before it has run.
RenderReset ==
  /\ target_exp_seq' = <<>>
  /\ target_win_exps' = <<>>
  /\ target_splited_exps' = <<>>
  /\ chunk_i' = 1
  /\ inflight' = FALSE
  /\ gen_calls' = <<>>
  /\ output_imgs' = <<>>
  /\ transformed_imgs' = <<>>
  /\ ffmpeg_rc' = -1
  /\ tmp_created' = FALSE
  /\ render_outcome' = "none"
  /\ render_error' = "none"

\* __main__ runs render_video with split_size=4 and the defaults on every
\* entry of the directory; a single job is also run with other parameters.
Init ==
  /\ listing \in Listings
  /\ split_size \in SplitSizes
  /\ semantic_radius \in Radii
  /\ silent \in BOOLEAN
  /\ (Len(listing) > 1 =>
        /\ split_size = DriverSplitSize
        /\ semantic_radius = DefaultRadius
        /\ silent = FALSE)
  /\ idx = 1
  /\ pc = "loop"
  /\ output_path = NoPath
  /\ exp_param_path = NoPath
  /\ gen_exp = <<>> /\ pose = <<>> /\ selected_pose = <<>>
  /\ gen_outcome = "none" /\ gen_error = "none"
  /\ target_exp_seq = <<>> /\ target_win_exps = <<>>
  /\ target_splited_exps = <<>> /\ chunk_i = 1 /\ inflight = FALSE
  /\ gen_calls = <<>> /\ output_imgs = <<>> /\ transformed_imgs = <<>>
  /\ ffmpeg_rc = -1 /\ tmp_created = FALSE
  /\ render_outcome = "none" /\ render_error = "none"
  /\ fs = [p \in AllPaths |-> NoFile]
  /\ started = {} /\ rendered = {} /\ failed = 0

\* An exception leaves the for loop and the program: nothing catches it.
Abort ==
  /\ pc' = "aborted"
  /\ failed' = IF failed = 0 THEN idx ELSE failed

\* ------------------------------------------------------------ the driver
\* for filename in os.listdir(phoneme_dir): an entry that does not end in
\* ".json" is passed over.
SkipItem ==
  /\ pc = "loop"
  /\ idx <= Len(listing)
  /\ listing[idx] # "json"
  /\ idx' = idx + 1
  /\ UNCHANGED <<listing, split_size, semantic_radius, silent, pc, output_path,
                 exp_param_path, started, rendered, failed>>
  /\ UNCHANGED <<genVars, renderVars, fs>>

\* The loop is exhausted: the program ends normally.
LoopEnd ==
  /\ pc = "loop"
  /\ idx > Len(listing)
  /\ pc' = "done"
  /\ UNCHANGED <<listing, split_size, semantic_radius, silent, idx, output_path,
                 exp_param_path, started, rendered, failed>>
  /\ UNCHANGED <<genVars, renderVars, fs>>

\* generate_expression_params fails before the alignment: reading the audio
\* features, one of the three models, or reading the pose raises.
GenerateFail ==
  /\ pc = "loop"
  /\ idx <= Len(listing)
  /\ listing[idx] = "json"
  /\ output_path' = OutputPath(idx)
  /\ exp_param_path' = ExpParamPath(OutputPath(idx))
  /\ started' = started \cup {idx}
  /\ gen_exp' = <<>> /\ pose' = <<>> /\ selected_pose' = <<>>
  /\ gen_outcome' = "raised"
  /\ gen_error' = "ModelError"
  /\ RenderReset
  /\ Abort
  /\ UNCHANGED <<listing, split_size, semantic_radius, silent, idx, rendered, fs>>

\* One iteration of the driver up to the return of
\* generate_expression_params: the paths are derived from the entry's name,
\* the models produce gen_exp, the pose is read, aligned to len(gen_exp),
\* joined to gen_exp column-wise and saved; an exception of the alignment or
\* of the concatenation leaves the program and nothing is saved.
GenerateExpressionParams ==
  /\ pc = "loop"
  /\ idx <= Len(listing)
  /\ listing[idx] = "json"
  /\ output_path' = OutputPath(idx)
  /\ exp_param_path' = ExpParamPath(OutputPath(idx))
  /\ started' = started \cup {idx}
  /\ \E n \in 0..MaxN, m \in 0..MaxM :
       LET al == AlignPose(PoseRows(m), n) IN
       /\ gen_exp' = ExpRows(n)
       /\ pose' = PoseRows(m)
       /\ selected_pose' = al.val
       /\ IF ~al.ok
            THEN /\ gen_outcome' = "raised"
                 /\ gen_error' = "IndexError"
                 /\ Abort
                 /\ UNCHANGED fs
          ELSE IF ~ConcatOk(ExpRows(n), al.val)
            THEN /\ gen_outcome' = "raised"
                 /\ gen_error' = "ValueError"
                 /\ Abort
                 /\ UNCHANGED fs
          ELSE /\ gen_outcome' = "returned"
               /\ gen_error' = "none"
               /\ fs' = [fs EXCEPT ![ExpParamPath(OutputPath(idx))] =
                           [kind |-> "npy",
                            rows |-> Concatenate(ExpRows(n), al.val)]]
               /\ pc' = "render"
               /\ UNCHANGED failed
  /\ RenderReset
  /\ UNCHANGED <<listing, split_size, semantic_radius, silent, idx, rendered>>

\* --------------------------------------------------------- render_video
\* render_video raises: the exception leaves the driver too.
RenderRaise(err) ==
  /\ render_outcome' = "raised"
  /\ render_error' = err
  /\ Abort

\* render_video returns: the driver goes on to the next entry.
RenderReturn ==
  /\ render_outcome' = "returned"
  /\ pc' = "loop"
  /\ idx' = idx + 1
  /\ UNCHANGED failed

\* render_video up to torch.split: the saved array is read back, one window
\* is built per frame, the windows are stacked and split into chunks.  A
\* missing file raises in np.load, an index outside the array raises in the
\* indexing, and torch.stack raises on an empty list of windows.
RenderPrepare ==
  /\ pc = "render"
  /\ rendered' = rendered \cup {idx}
  /\ IF fs[exp_param_path].kind # "npy"
       THEN /\ RenderRaise("FileNotFoundError")
            /\ UNCHANGED <<target_exp_seq, target_win_exps, target_splited_exps>>
     ELSE LET seq == fs[exp_param_path].rows IN
       /\ target_exp_seq' = seq
       /\ IF \E f \in 1..Len(seq) : ~WinIndicesOk(f - 1, seq, semantic_radius)
            THEN /\ RenderRaise("IndexError")
                 /\ UNCHANGED <<target_win_exps, target_splited_exps>>
          ELSE IF Len(seq) = 0
            THEN /\ RenderRaise("RuntimeError")
                 /\ UNCHANGED <<target_win_exps, target_splited_exps>>
          ELSE /\ target_win_exps' = BuildWindows(seq, semantic_radius)
               /\ target_splited_exps' =
                    Split(BuildWindows(seq, semantic_radius), split_size)
               /\ render_outcome' = "running"
               /\ pc' = "gen_loop"
               /\ UNCHANGED <<render_error, failed>>
  /\ UNCHANGED <<chunk_i, inflight, gen_calls, output_imgs, transformed_imgs,
                 ffmpeg_rc, tmp_created>>
  /\ UNCHANGED <<listing, split_size, semantic_radius, silent, idx, output_path,
                 exp_param_path, started>>
  /\ UNCHANGED <<genVars, fs>>

\* for win_exp in target_splited_exps: the reference image is broadcast to
\* the chunk's frame count and net_G is called on the chunk.
GenCall ==
  /\ pc = "gen_loop"
  /\ ~inflight
  /\ chunk_i <= Len(target_splited_exps)
  /\ LET win_exp == target_splited_exps[chunk_i]
         cur_src_img == Expand(SrcImg, Len(win_exp)) IN
       gen_calls' = Append(gen_calls, [src |-> cur_src_img, win |-> win_exp])
  /\ inflight' = TRUE
  /\ UNCHANGED <<target_exp_seq, target_win_exps, target_splited_exps, chunk_i,
                 output_imgs, transformed_imgs, ffmpeg_rc, tmp_created,
                 render_outcome, render_error>>
  /\ UNCHANGED <<mainVars, genVars, fs>>

\* The net_G call returns: its images are appended to output_imgs and the
\* loop moves to the next chunk.  A batch mismatch raises in the generator.
GenReturn ==
  /\ pc = "gen_loop"
  /\ inflight
  /\ LET call == gen_calls[Len(gen_calls)] IN
       IF ~NetGOk(call.src, call.win)
         THEN /\ RenderRaise("RenderError")
              /\ UNCHANGED <<output_imgs, chunk_i, idx>>
       ELSE /\ output_imgs' = Append(output_imgs, NetG(call.src, call.win))
            /\ chunk_i' = chunk_i + 1
            /\ UNCHANGED <<pc, failed, render_outcome, render_error, idx>>
  /\ inflight' = FALSE
  /\ UNCHANGED <<target_exp_seq, target_win_exps, target_splited_exps,
                 gen_calls, transformed_imgs, ffmpeg_rc, tmp_created>>
  /\ UNCHANGED <<listing, split_size, semantic_radius, silent, output_path,
                 exp_param_path, started, rendered>>
  /\ UNCHANGED <<genVars, fs>>

\* The net_G call fails (out of memory, device error): not retried.
GenFail ==
  /\ pc = "gen_loop"
  /\ inflight
  /\ RenderRaise("RenderError")
  /\ inflight' = FALSE
  /\ UNCHANGED <<target_exp_seq, target_win_exps, target_splited_exps, chunk_i,
                 gen_calls, output_imgs, transformed_imgs, ffmpeg_rc,
                 tmp_created>>
  /\ UNCHANGED <<listing, split_size, semantic_radius, silent, idx, output_path,
                 exp_param_path, started, rendered>>
  /\ UNCHANGED <<genVars, fs>>

\* After the last chunk: torch.cat and the change to 8-bit frames.
CatTransform ==
  /\ pc = "gen_loop"
  /\ ~inflight
  /\ chunk_i > Len(target_splited_exps)
  /\ transformed_imgs' = Transform(Cat(output_imgs))
  /\ pc' = "write"
  /\ UNCHANGED <<target_exp_seq, target_win_exps, target_splited_exps, chunk_i,
                 inflight, gen_calls, output_imgs, ffmpeg_rc, tmp_created,
                 render_outcome, render_error>>
  /\ UNCHANGED <<listing, split_size, semantic_radius, silent, idx, output_path,
                 exp_param_path, started, rendered, failed>>
  /\ UNCHANGED <<genVars, fs>>

\* The container torchvision.io.write_video leaves for a list of frames.
Video(frames, audio) ==
  [kind |-> "video", nframes |-> Len(frames), audio |-> audio]

\* if silent: the frames are written to output_path and render_video
\* returns; else they are written to silent.mp4 and ffmpeg is next.
WriteVideo ==
  /\ pc = "write"
  /\ IF silent
       THEN /\ fs' = [fs EXCEPT ![output_path] = Video(transformed_imgs, FALSE)]
            /\ RenderReturn
            /\ UNCHANGED <<tmp_created, render_error>>
     ELSE /\ fs' = [fs EXCEPT ![SilentPath] = Video(transformed_imgs, FALSE)]
          /\ tmp_created' = TRUE
          /\ pc' = "ffmpeg"
          /\ UNCHANGED <<idx, failed, render_outcome, render_error>>
  /\ UNCHANGED <<target_exp_seq, target_win_exps, target_splited_exps, chunk_i,
                 inflight, gen_calls, output_imgs, transformed_imgs, ffmpeg_rc>>
  /\ UNCHANGED <<listing, split_size, semantic_radius, silent, output_path,
                 exp_param_path, started, rendered>>
  /\ UNCHANGED genVars

\* write_video raises (encoder error, disk full); the file it was writing
\* may already exist, truncated.
WriteVideoFail ==
  /\ pc = "write"
  /\ \E created \in BOOLEAN :
       /\ fs' = IF created
                  THEN [fs EXCEPT ![IF silent THEN output_path ELSE SilentPath] =
                          [kind |-> "partial"]]
                  ELSE fs
       /\ tmp_created' = (created /\ ~silent)
  /\ RenderRaise("IOError")
  /\ UNCHANGED <<target_exp_seq, target_win_exps, target_splited_exps, chunk_i,
                 inflight, gen_calls, output_imgs, transformed_imgs, ffmpeg_rc>>
  /\ UNCHANGED <<listing, split_size, semantic_radius, silent, idx, output_path,
                 exp_param_path, started, rendered>>
  /\ UNCHANGED genVars

\* os.system("ffmpeg ... -i silent.mp4 -i wav -shortest output_path"): the
\* exit status is returned by os.system and dropped; a failed run writes no
\* output.  Either way the next statement is os.remove.
Ffmpeg ==
  /\ pc = "ffmpeg"
  /\ \E rc \in {0, 1} :
       /\ ffmpeg_rc' = rc
       /\ fs' = IF rc = 0
                  THEN [fs EXCEPT ![output_path] =
                          [kind |-> "video", nframes |-> fs[SilentPath].nframes,
                           audio |-> TRUE]]
                  ELSE fs
       /\ failed' = IF rc # 0 /\ failed = 0 THEN idx ELSE failed
  /\ pc' = "remove"
  /\ UNCHANGED <<target_exp_seq, target_win_exps, target_splited_exps, chunk_i,
                 inflight, gen_calls, output_imgs, transformed_imgs,
                 tmp_created, render_outcome, render_error>>
  /\ UNCHANGED <<listing, split_size, semantic_radius, silent, idx, output_path,
                 exp_param_path, started, rendered>>
  /\ UNCHANGED genVars

\* os.remove(silent_video_path), then render_video returns.
RemoveTemp ==
  /\ pc = "remove"
  /\ fs' = [fs EXCEPT ![SilentPath] = NoFile]
  /\ RenderReturn
  /\ UNCHANGED <<target_exp_seq, target_win_exps, target_splited_exps, chunk_i,
                 inflight, gen_calls, output_imgs, transformed_imgs, ffmpeg_rc,
                 tmp_created, render_error>>
  /\ UNCHANGED <<listing, split_size, semantic_radius, silent, output_path,
                 exp_param_path, started, rendered>>
  /\ UNCHANGED genVars

\* os.remove raises (the file is held open, permission denied).
RemoveTempFail ==
  /\ pc = "remove"
  /\ RenderRaise("OSError")
  /\ UNCHANGED <<target_exp_seq, target_win_exps, target_splited_exps, chunk_i,
                 inflight, gen_calls, output_imgs, transformed_imgs, ffmpeg_rc,
                 tmp_created>>
  /\ UNCHANGED <<listing, split_size, semantic_radius, silent, idx, output_path,
                 exp_param_path, started, rendered>>
  /\ UNCHANGED <<genVars, fs>>

Next ==
  \/ SkipItem
  \/ LoopEnd
  \/ GenerateFail
  \/ GenerateExpressionParams
  \/ RenderPrepare
  \/ GenCall
  \/ GenReturn
  \/ GenFail
  \/ CatTransform
  \/ WriteVideo
  \/ WriteVideoFail
  \/ Ffmpeg
  \/ RemoveTemp
  \/ RemoveTempFail

Spec == Init /\ [][Next]_vars

\* ================================================================ claims
\* The whole render loop as a function of the loaded array: the windows are
\* split into chunks of k, each chunk goes through net_G with the reference
\* image broadcast to it, and the chunk outputs are concatenated.
RenderWith(seq, radius, k) ==
  LET chunks == Split(BuildWindows(seq, radius), k) IN
  Cat([c \in 1..Len(chunks) |->
         NetG(Expand(SrcImg, Len(chunks[c])), chunks[c])])

\* render_video holds every frame's image: the generator loop is over.
FramesReady == pc \in {"write", "ffmpeg", "remove"}

\* C1: whatever the pose length, the aligned-parameter array that
\* generate_expression_params saves has exactly len(gen_exp) rows, its
\* expression columns are gen_exp, and the join of expression and aligned
\* pose never fails on a row-count mismatch.
C1_AlignedLengthIsExpressionLength ==
  /\ gen_error # "ValueError"
  /\ gen_outcome = "returned" =>
       /\ fs[exp_param_path].kind = "npy"
       /\ Len(fs[exp_param_path].rows) = Len(gen_exp)
       /\ \A i \in 1..Len(gen_exp) : fs[exp_param_path].rows[i].exp = gen_exp[i]

C1_Witness ==
  /\ gen_outcome = "returned"
  /\ Len(pose) >= 1
  /\ Len(pose) < Len(gen_exp)
  /\ Len(fs[exp_param_path].rows) = Len(gen_exp)

\* C2: for a non-empty pose the alignment succeeds; with len(pose) >=
\* target_len the saved pose columns are the first target_len pose rows,
\* otherwise the first len(pose) are the pose rows unchanged and every later
\* one is the pose's last row.
C2_PoseAlignment ==
  Len(pose) >= 1 =>
    /\ gen_outcome = "returned"
    /\ Len(selected_pose) = Len(gen_exp)
    /\ \A i \in 1..Len(gen_exp) :
         /\ fs[exp_param_path].rows[i].pose = selected_pose[i]
         /\ selected_pose[i] =
              IF i <= Len(pose) THEN pose[i] ELSE pose[Len(pose)]

C2_Witness ==
  /\ gen_outcome = "returned"
  /\ Len(pose) = 2
  /\ Len(gen_exp) = 3
  /\ selected_pose = <<pose[1], pose[2], pose[2]>>

\* C3: for every split_size the frames render_video ends with are those of
\* the same input rendered with split_size = 1: as many frames as rows, and
\* frame i is the generator's image of the window centred on frame i.
C3_BatchingIsTransparent ==
  FramesReady =>
    /\ Len(transformed_imgs) = Len(target_exp_seq)
    /\ transformed_imgs =
         Transform(RenderWith(target_exp_seq, semantic_radius, 1))
    /\ \A f \in 1..Len(transformed_imgs) :
         transformed_imgs[f].of =
           [src |-> SrcImg, win |-> WinExp(f - 1, target_exp_seq, semantic_radius)]

C3_Witness ==
  /\ pc = "write"
  /\ split_size = 2
  /\ Len(target_exp_seq) = 3
  /\ Len(target_splited_exps) = 2
  /\ Len(transformed_imgs) = 3

\* C4: every window of the loaded sequence has 2*radius+1 indices, each in
\* [0, L), at every centre including the two ends; the indexing never leaves
\* the array, and every window render_video builds has that same size.
C4_WindowsFixedSizeInRange ==
  /\ render_error # "IndexError"
  /\ \A f \in 1..Len(target_exp_seq) :
       LET w == WinIndices(f - 1, target_exp_seq, semantic_radius) IN
       /\ Len(w) = 2 * semantic_radius + 1
       /\ \A k \in 1..Len(w) : w[k] >= 0 /\ w[k] < Len(target_exp_seq)
  /\ pc = "gen_loop" =>
       /\ Len(target_win_exps) = Len(target_exp_seq)
       /\ \A f \in 1..Len(target_win_exps) :
            Len(target_win_exps[f]) = 2 * semantic_radius + 1

C4_Witness ==
  /\ pc = "gen_loop"
  /\ semantic_radius = DefaultRadius
  /\ Len(target_exp_seq) = 2
  /\ WinIndices(0, target_exp_seq, semantic_radius)[DefaultRadius] = 0
  /\ WinIndices(1, target_exp_seq, semantic_radius)[DefaultRadius + 2] = 1
  /\ Len(target_win_exps[1]) = 27

\* C5: once render_video has created silent.mp4, the file is gone on every
\* way out of render_video, by return or by exception.
C5_TempFileAlwaysRemoved ==
  (tmp_created /\ render_outcome \in {"returned", "raised"}) =>
    fs[SilentPath].kind = "none"

\* C6: render_video never returns normally after the ffmpeg run has failed.
C6_MuxFailureSurfaced ==
  ffmpeg_rc > 0 => render_outcome # "returned"

\* C7: with an empty pose or an empty expression sequence the alignment
\* raises, and no aligned-parameter array is saved for the item.
C7_EmptySequenceIsAnError ==
  (/\ gen_outcome # "none"
   /\ gen_error # "ModelError"
   /\ (Len(pose) = 0 \/ Len(gen_exp) = 0)) =>
    /\ gen_outcome = "raised"
    /\ fs[exp_param_path].kind = "none"

\* C8: once a step of an item has failed, no later item's expression
\* generation or rendering is started and no later item's output is written.
C8_FailureAbortsBatch ==
  failed # 0 =>
    /\ \A k \in started \cup rendered : k <= failed
    /\ \A b \in 1..MaxItems :
         b > failed => fs[OutputPath(b)].kind = "none"

C10_ChunkedGeneratorCalls ==
  LET n == Len(target_exp_seq)
      total == (n + split_size - 1) \div split_size IN
  /\ Len(gen_calls) <= total
  /\ \A c \in 1..Len(gen_calls) :
       LET first == (c - 1) * split_size
           size == Min(split_size, n - first) IN
       /\ size >= 1
       /\ gen_calls[c].win = [j \in 1..size |-> target_win_exps[first + j]]
       /\ gen_calls[c].src = [j \in 1..size |-> SrcImg]
  /\ pc = "gen_loop" =>
       Len(gen_calls) = Len(output_imgs) + (IF inflight THEN 1 ELSE 0)
  /\ FramesReady =>
       /\ Len(gen_calls) = total
       /\ Len(output_imgs) = total

C10_Witness ==
  /\ pc = "write"
  /\ split_size = 2
  /\ Len(target_exp_seq) = 3
  /\ Len(gen_calls) = 2
  /\ Len(gen_calls[1].win) = 2
  /\ Len(gen_calls[2].win) = 1
  /\ Len(gen_calls[2].src) = 1

====
